---- MODULE Spec2Model ----
(***************************************************************************)
(* skimage/filters/window.py: radially symmetric window generation.        *)
(*                                                                         *)
(* Real numbers are fixed-point: a real x is the integer x * Scale.        *)
(* Python ints (a coerced window size, ndim, array indices) are plain      *)
(* integers.  An ndarray is a record [dtype, shape, data] whose data is    *)
(* the C-order (row-major) flattening, indexed from 0.                     *)
(***************************************************************************)
EXTENDS Integers, Sequences, FiniteSets

\* ------------------------------------------------------------ bounds
\* largest size passed to get_window2
MaxSize == 8
\* largest size passed to get_windownd and, as window_size, to the mappers
MaxNdSize == 4
\* largest ndim passed to get_windownd
MaxNdim == 3
\* most rows (M) of an output_coords array handed to a mapper directly
MaxRows == 1
\* largest coordinate handed to a mapper directly, in half pixels
MaxCoord2 == 3

\* ------------------------------------------------------------ numbers
\* fixed-point resolution: 1/1000; even, so that halves are exact
Scale == 2 * 500
Half == Scale \div 2

Err(kind, from) == [status |-> "error", kind |-> kind, from |-> from]
Ok(value) == [status |-> "ok", value |-> value]

RECURSIVE SqrtSearch(_, _, _)
SqrtSearch(n, lo, hi) ==
    IF lo >= hi THEN lo
    ELSE LET mid == (lo + hi + 1) \div 2
         IN IF mid * mid <= n THEN SqrtSearch(n, mid, hi)
                              ELSE SqrtSearch(n, lo, mid - 1)

\* np.sqrt of the fixed-point square n = (x * Scale)^2: floor of the root,
\* exact whenever the root is a multiple of 1/Scale
sqrt(n) == SqrtSearch(n, 0, IF n > 46340 THEN 46340 ELSE n)

\* the value v (fixed-point) as stored into an array of the given dtype:
\* an integer array truncates, a float array keeps it
Store(dtype, v) == IF dtype = "int" THEN (v \div Scale) * Scale ELSE v

\* ------------------------------------------------------------ ndarrays
\* the element of a one-element set: Only({e(v) : v \in {x}}) is e at the
\* value of x, as a local variable assigned once holds it
Only(S) == CHOOSE r \in S : TRUE

RECURSIVE Prod(_)
Prod(shape) == IF shape = <<>> THEN 1 ELSE Head(shape) * Prod(Tail(shape))

\* the flat C-order positions of an array of the given shape
Flat(shape) == 0..(Prod(shape) - 1)

\* an array: its dtype, its shape and its elements in C order
NdArray(dtype, shape, data) == [dtype |-> dtype, shape |-> shape, data |-> data]

\* a[i, j] of a 2-D array
At2(a, i, j) == a.data[i * a.shape[2] + j]

\* the product of the extents after axis ax (axes counted from 1)
Inner(shape, ax) == Prod(SubSeq(shape, ax + 1, Len(shape)))

\* the index along axis ax of the flat C-order position p
AxisIndex(p, shape, ax) == (p \div Inner(shape, ax)) % shape[ax]

\* np.arange(n), n a Python int
arange(n) == NdArray("int", <<n>>, [k \in Flat(<<n>>) |-> k * Scale])

\* np.meshgrid(*L), indexing='xy': grid t repeats L[t] along axis t, the
\* first two axes exchanged when there are two or more; no arrays, no grids
meshgrid(L) ==
    LET nd == Len(L)
        shape == IF nd >= 2
                 THEN [a \in 1..nd |-> IF a = 1 THEN L[2].shape[1]
                                       ELSE IF a = 2 THEN L[1].shape[1]
                                       ELSE L[a].shape[1]]
                 ELSE [a \in 1..nd |-> L[a].shape[1]]
        axis(t) == IF nd >= 2 /\ t = 1 THEN 2
                   ELSE IF nd >= 2 /\ t = 2 THEN 1 ELSE t
    IN [t \in 1..nd |->
          NdArray(L[t].dtype, shape,
                  [p \in Flat(shape) |-> L[t].data[AxisIndex(p, shape, axis(t))]])]

\* np.hstack of equally shaped arrays: concatenation along the second axis,
\* along the first for 1-D arrays
hstack(arrs) ==
    LET sh == arrs[1].shape
        ax == IF Len(sh) = 1 THEN 1 ELSE 2
        block == sh[ax] * Inner(sh, ax)
        shape == [a \in 1..Len(sh) |-> IF a = ax THEN sh[a] * Len(arrs) ELSE sh[a]]
    IN NdArray(arrs[1].dtype, shape,
               [p \in Flat(shape) |->
                  LET outer == p \div (block * Len(arrs))
                      rest == p % (block * Len(arrs))
                  IN arrs[rest \div block + 1].data[outer * block + (rest % block)]])

\* a.swapaxes(0, 1) of an array of two or more dimensions
swapaxes01(a) ==
    LET A == a.shape[1]
        B == a.shape[2]
        inner == Inner(a.shape, 2)
        shape == [k \in 1..Len(a.shape) |-> IF k = 1 THEN B ELSE IF k = 2 THEN A
                                            ELSE a.shape[k]]
    IN NdArray(a.dtype, shape,
               [p \in Flat(shape) |->
                  LET i == p \div (A * inner)
                      j == (p \div inner) % A
                  IN a.data[(j * B + i) * inner + (p % inner)]])

\* a.reshape(rows, -1)
reshape2(a, rows) ==
    [dtype |-> a.dtype, shape |-> <<rows, Prod(a.shape) \div rows>>, data |-> a.data]

\* a.T of a 2-D array
transpose(a) ==
    NdArray(a.dtype, <<a.shape[2], a.shape[1]>>,
            [p \in Flat(a.shape) |-> At2(a, p % a.shape[1], p \div a.shape[1])])

\* a.astype(np.double)
astype_double(a) == [a EXCEPT !.dtype = "float"]

\* np.dstack((a, b)) of two (M, N) arrays: the (M, N, 2) array with
\* [m, n, 0] = a[m, n] and [m, n, 1] = b[m, n]
dstack(a, b) ==
    NdArray("float", <<a.shape[1], a.shape[2], 2>>,
            [p \in Flat(<<a.shape[1], a.shape[2], 2>>) |->
               IF p % 2 = 0 THEN a.data[p \div 2] ELSE b.data[p \div 2]])

\* ------------------------------------------------------------ safe_as_int
\* integer coercion: fails when the value has a fractional part
IsIntegral(val) == val % Scale = 0
safe_as_int(val) == val \div Scale

\* ------------------------------------------------------------ the mappers
Sq(x) == x * x

\* the centre taken as window_size / 2
center_nohalf(window_size) == (window_size * Scale) \div 2

\* center = (window_size / 2) - 0.5, window_size a coerced int
center(window_size) == (window_size * Scale) \div 2 - Half

\* rr, cc and column_stack((cc, rr)): the float rows (0, radius), the radius
\* over columns 0 and 1 of output_coords
RotationalCoords(output_coords, c) ==
    NdArray("float", <<output_coords.shape[1], 2>>,
            [p \in Flat(<<output_coords.shape[1], 2>>) |->
               IF p % 2 = 0 THEN 0
               ELSE sqrt(Sq(At2(output_coords, p \div 2, 0) - c)
                         + Sq(At2(output_coords, p \div 2, 1) - c))])

\* the 2-D mapper returning the rows (radius, 0)
_rotational_mapping_swapped(output_coords, window_size) ==
    IF ~IsIntegral(window_size) THEN Err("ValueError", "safe_as_int")
    ELSE IF output_coords.shape[2] < 2 THEN Err("IndexError", "_rotational_mapping")
    ELSE Ok(Only({NdArray(a.dtype, a.shape,
                          [p \in Flat(a.shape) |-> IF p % 2 = 0 THEN a.data[p + 1] ELSE 0])
                  : a \in {RotationalCoords(output_coords,
                                            center(safe_as_int(window_size)))}}))

\* the 2-D mapper refusing every column count but two
_rotational_mapping_strict(output_coords, window_size) ==
    IF ~IsIntegral(window_size) THEN Err("ValueError", "safe_as_int")
    ELSE IF output_coords.shape[2] # 2 THEN Err("ValueError", "_rotational_mapping")
    ELSE Ok(RotationalCoords(output_coords, center(safe_as_int(window_size))))

\* window.py 7-29.  Columns 0 and 1 of output_coords are read: a missing
\* column 1 is an IndexError, further columns are ignored.
_rotational_mapping(output_coords, window_size) ==
    IF ~IsIntegral(window_size) THEN Err("ValueError", "safe_as_int")
    ELSE IF output_coords.shape[2] < 2 THEN Err("IndexError", "_rotational_mapping")
    ELSE Ok(RotationalCoords(output_coords, center(safe_as_int(window_size))))

RECURSIVE SumSq(_, _, _, _)
\* ((output_coords - center) ** 2).sum(axis=1) for row m, from column n on
SumSq(a, m, n, c) ==
    IF n >= a.shape[2] THEN 0
    ELSE Sq(At2(a, m, n) - c) + SumSq(a, m, n + 1, c)

\* coords = zeros_like(output_coords) keeps the shape and the dtype of
\* output_coords; column 0 receives the radius over all N axes
NdRotationalCoords(output_coords, c) ==
    NdArray(output_coords.dtype, output_coords.shape,
            [p \in Flat(output_coords.shape) |->
               IF p % output_coords.shape[2] = 0
               THEN Store(output_coords.dtype,
                          sqrt(SumSq(output_coords, p \div output_coords.shape[2], 0, c)))
               ELSE 0])

\* the N-D mapper without the integer coercion of window_size
_ndrotational_mapping_nocoerce(output_coords, window_size) ==
    Ok(NdRotationalCoords(output_coords, window_size \div 2 - Half))

\* the N-D mapper with the radius in the last column
_ndrotational_mapping_lastcol(output_coords, window_size) ==
    IF ~IsIntegral(window_size) THEN Err("ValueError", "safe_as_int")
    ELSE Ok(Only({NdArray(a.dtype, a.shape,
                          [p \in Flat(a.shape) |->
                             IF p % a.shape[2] = a.shape[2] - 1
                             THEN a.data[p - (a.shape[2] - 1)] ELSE 0])
                  : a \in {NdRotationalCoords(output_coords,
                                              center(safe_as_int(window_size)))}}))

\* window.py 32-51
_ndrotational_mapping(output_coords, window_size) ==
    IF ~IsIntegral(window_size) THEN Err("ValueError", "safe_as_int")
    ELSE Ok(NdRotationalCoords(output_coords, center(safe_as_int(window_size))))

\* ------------------------------------------------------------ get_window
\* scipy.signal.get_window(window, Nx, fftbins=False): the symmetric 1-D
\* window of Nx samples, as fixed-point weights.
Windows == {"boxcar", "triang", "hann"}

\* hann(Nx, sym=True)[k] = 0.5 - 0.5 cos(2 pi k / (Nx - 1)), rounded to 1/1000
HannTable ==
    << <<1000>>,
       <<0, 0>>,
       <<0, 1000, 0>>,
       <<0, 750, 750, 0>>,
       <<0, 500, 1000, 500, 0>>,
       <<0, 345, 905, 905, 345, 0>>,
       <<0, 250, 750, 1000, 750, 250, 0>>,
       <<0, 188, 611, 950, 950, 611, 188, 0>>,
       <<0, 146, 500, 854, 1000, 854, 500, 146, 0>>,
       <<0, 117, 413, 750, 970, 970, 750, 413, 117, 0>> >>

\* triang(Nx, sym=True): (2n - 1) / Nx for even Nx, 2n / (Nx + 1) for odd Nx,
\* n = 1 .. (Nx + 1) // 2, mirrored
Triang(Nx, k) ==
    LET n == (IF k < Nx - 1 - k THEN k ELSE Nx - 1 - k) + 1
    IN IF Nx % 2 = 0 THEN ((2 * n - 1) * Scale) \div Nx
                     ELSE (2 * n * Scale) \div (Nx + 1)

\* an unknown window name and a length that is no whole number are ValueErrors
get_window(window, Nx) ==
    IF window \notin Windows THEN Err("ValueError", "get_window")
    ELSE IF ~IsIntegral(Nx) THEN Err("ValueError", "get_window")
    ELSE Ok(NdArray("float", <<Nx \div Scale>>,
                    [k \in Flat(<<Nx \div Scale>>) |->
                       CASE window = "boxcar" -> Scale
                         [] window = "triang" -> Triang(Nx \div Scale, k)
                         [] window = "hann" -> HannTable[Nx \div Scale][k + 1]]))

\* ------------------------------------------------------------ warp
\* order-1 interpolation of a 2-D image at (row y, col x), mode='constant',
\* cval=0: a point outside the image takes cval
Interp(image, y, x) ==
    LET K == image.shape[1]
        C == image.shape[2]
        y0 == y \div Scale
        ty == y % Scale
        x0 == x \div Scale
        tx == x % Scale
        alongx(yy) == IF tx = 0 THEN At2(image, yy, x0)
                      ELSE (At2(image, yy, x0) * (Scale - tx)
                            + At2(image, yy, x0 + 1) * tx) \div Scale
    IN IF y < 0 \/ y > (K - 1) * Scale \/ x < 0 \/ x > (C - 1) * Scale THEN 0
       ELSE IF ty = 0 THEN alongx(y0)
       ELSE (alongx(y0) * (Scale - ty) + alongx(y0 + 1) * ty) \div Scale

RECURSIVE MinOf(_, _)
MinOf(a, n) == IF n = 0 THEN a.data[0]
               ELSE LET m == MinOf(a, n - 1) IN IF a.data[n] < m THEN a.data[n] ELSE m
RECURSIVE MaxOf(_, _)
MaxOf(a, n) == IF n = 0 THEN a.data[0]
               ELSE LET m == MaxOf(a, n - 1) IN IF a.data[n] > m THEN a.data[n] ELSE m

\* clip=True: the output is clipped to the range <<lo, hi>> of the input
\* image, a pixel equal to cval = 0 keeping cval when 0 lies outside it
ClipWarpOutput(range, v) ==
    IF v = 0 /\ ~(range[1] <= 0 /\ 0 <= range[2]) THEN 0
    ELSE IF v < range[1] THEN range[1] ELSE IF v > range[2] THEN range[2] ELSE v

\* warp_coords: the output pixels (row r, col c) as the float rows (c, r)
\* of a (rows * cols, 2) array, in the order c * rows + r
WarpCoords(rows, cols) ==
    NdArray("float", <<rows * cols, 2>>,
            [p \in Flat(<<rows * cols, 2>>) |->
               IF p % 2 = 0 THEN ((p \div 2) \div rows) * Scale
                            ELSE ((p \div 2) % rows) * Scale])

\* inverse_map(coords, window_size), inverse_map the callable of that name
CallInverseMap(inverse_map, coords, ws) ==
    CASE inverse_map = "_rotational_mapping" -> _rotational_mapping(coords, ws)
      [] inverse_map = "_ndrotational_mapping" -> _ndrotational_mapping(coords, ws)

\* the image interpolated at the mapped (col, row) of every output pixel
\* and clipped to the image's range
WarpImage(image, mapped, rows, cols) ==
    Only({NdArray("float", <<rows, cols>>,
                  [p \in Flat(<<rows, cols>>) |->
                     ClipWarpOutput(range,
                         Interp(image,
                                At2(mapped, (p % cols) * rows + (p \div cols), 1),
                                At2(mapped, (p % cols) * rows + (p \div cols), 0)))])
          : range \in {<<MinOf(image, Prod(image.shape) - 1),
                         MaxOf(image, Prod(image.shape) - 1)>>}})

\* warp(image, inverse_map, map_args={'window_size': ws}, output_shape):
\* inverse_map returns, for every output pixel, the (col, row) at which the
\* image is interpolated; its error is the caller's
warp(image, inverse_map, ws, output_shape) ==
    IF ~IsIntegral(output_shape[1]) \/ ~IsIntegral(output_shape[2])
    THEN Err("ValueError", "safe_as_int")
    ELSE LET rows == safe_as_int(output_shape[1])
             cols == safe_as_int(output_shape[2])
         IN Only({IF mapped.status = "error" THEN mapped
                  ELSE Ok(WarpImage(img, mapped.value, rows, cols))
                  : img \in {image},
                    mapped \in {CallInverseMap(inverse_map, WarpCoords(rows, cols), ws)}})

\* ------------------------------------------------------------ get_window2
\* the profile left unsliced: the whole window, from its edge
HalfProfile_whole(w) == w

\* w[safe_as_int(np.floor(w.shape[0] / 2)):]
HalfProfile(w) ==
    NdArray("float", <<w.shape[1] - w.shape[1] \div 2>>,
            [k \in Flat(<<w.shape[1] - w.shape[1] \div 2>>) |->
               w.data[w.shape[1] \div 2 + k]])

\* w[:, np.newaxis]: the 1-D profile as a one-column image
NewAxis(w) == [w EXCEPT !.shape = <<w.shape[1], 1>>]

\* window.py 54-82
get_window2(window, size) ==
    Only({IF w.status = "error" THEN w
          ELSE warp(NewAxis(HalfProfile(w.value)), "_rotational_mapping", size,
                    <<size, size>>)
          : w \in {get_window(window, size)}})

\* ------------------------------------------------------------ get_windownd
\* window.py 115-117: every lattice point of [0, size)^ndim as the rows of a
\* float (size^ndim, ndim) array.  hstack of no grid (ndim < 1) is a
\* ValueError, swapaxes(0, 1) of the 1-D stack (ndim = 1) an AxisError.
OutCoords(size, ndim) ==
    Only({IF Len(grids) = 0 THEN Err("ValueError", "hstack")
          ELSE Only({IF Len(h.shape) < 2 THEN Err("AxisError", "swapaxes")
                     ELSE Ok(astype_double(transpose(reshape2(swapaxes01(h), ndim))))
                     : h \in {hstack(grids)}})
          : grids \in {meshgrid([i \in 1..(IF ndim > 0 THEN ndim ELSE 0) |->
                                   arange(size)])}})

\* np.expand_dims(w, axis=1), times over
RECURSIVE ExpandDims(_, _)
ExpandDims(w, times) ==
    IF times <= 0 THEN w
    ELSE ExpandDims([w EXCEPT !.shape = <<w.shape[1], 1>> \o Tail(w.shape)], times - 1)

\* get_windownd returning, for the radius, the profile's weight there
get_windownd_weights(window, size, ndim) ==
    Only({IF w.status = "error" THEN w
          ELSE IF outcoords.status = "error" THEN outcoords
          ELSE Only({IF coords.status = "error" THEN coords
                     ELSE Ok(dstack(NdArray("float", coords.value.shape,
                                       [p \in Flat(coords.value.shape) |->
                                          IF p % ndim = 0
                                          THEN Interp(w2, coords.value.data[p], 0)
                                          ELSE 0]),
                                    outcoords.value))
                     : coords \in {_ndrotational_mapping(outcoords.value, size)},
                       w2 \in {NewAxis(HalfProfile(w.value))}})
          : w \in {get_window(window, size)},
            outcoords \in {OutCoords(safe_as_int(size), ndim)}})

\* window.py 85-123.  The profile w is sliced and given ndim - 1 more axes,
\* and is no part of the result dstack((coords, outcoords)).
get_windownd(window, size, ndim) ==
    Only({IF w.status = "error" THEN w
          ELSE IF outcoords.status = "error" THEN outcoords
          ELSE Only({IF coords.status = "error" THEN coords
                     ELSE LET windownd == ExpandDims(HalfProfile(w.value), ndim - 1)
                          IN Ok(dstack(coords.value, outcoords.value))
                     : coords \in {_ndrotational_mapping(outcoords.value, size)}})
          : w \in {get_window(window, size)},
            outcoords \in {OutCoords(safe_as_int(size), ndim)}})

\* ------------------------------------------------------------ state
VARIABLES call, result
vars == <<call, result>>

\* column counts of an output_coords array handed to a mapper directly:
\* the two the 2-D mapper documents, one fewer and one more
ColCounts == {1, 2, 3}
\* coordinates on the half-pixel grid
CoordVals == {k * Half : k \in 0..MaxCoord2}
\* window sizes handed to a mapper or to get_windownd: whole and half-way
MapSizes == {k * Half : k \in 2..(2 * MaxNdSize + 1)}
\* sizes handed to get_window2
Sizes == {k * Half : k \in 2..(2 * MaxSize + 1)}
\* window specifications: the known names and one the generator rejects
WindowArgs == Windows \cup {"not_a_window"}

\* the values a caller can put into an array of that dtype: an integer
\* array holds whole numbers only
ValsOf(dtype) == IF dtype = "int" THEN {v \in CoordVals : v % Scale = 0} ELSE CoordVals

Idle == [op |-> "none"]
NoResult == [status |-> "none"]

Init ==
    /\ call = Idle
    /\ result = NoResult

CallRotationalMapping ==
    /\ call = Idle
    /\ \E dtype \in {"int", "float"}, M \in 1..MaxRows, N \in ColCounts, ws \in MapSizes :
       \E data \in [0..(M * N - 1) -> ValsOf(dtype)] :
       \E oc \in {[dtype |-> dtype, shape |-> <<M, N>>, data |-> data]} :
        /\ call' = [op |-> "_rotational_mapping", output_coords |-> oc, window_size |-> ws]
        /\ result' = _rotational_mapping(oc, ws)

CallNdRotationalMapping ==
    /\ call = Idle
    /\ \E dtype \in {"int", "float"}, M \in 1..MaxRows, N \in ColCounts, ws \in MapSizes :
       \E data \in [0..(M * N - 1) -> ValsOf(dtype)] :
       \E oc \in {[dtype |-> dtype, shape |-> <<M, N>>, data |-> data]} :
        /\ call' = [op |-> "_ndrotational_mapping", output_coords |-> oc, window_size |-> ws]
        /\ result' = _ndrotational_mapping(oc, ws)

CallGetWindow2 ==
    /\ call = Idle
    /\ \E window \in WindowArgs, size \in Sizes :
        /\ call' = [op |-> "get_window2", window |-> window, size |-> size]
        /\ result' = get_window2(window, size)

CallGetWindownd ==
    /\ call = Idle
    /\ \E window \in WindowArgs, size \in MapSizes, ndim \in (-1)..MaxNdim :
        /\ call' = [op |-> "get_windownd", window |-> window, size |-> size, ndim |-> ndim]
        /\ result' = get_windownd(window, size, ndim)

\* the caller takes the value or the error; the module keeps nothing
Return ==
    /\ call # Idle
    /\ call' = Idle
    /\ result' = NoResult

Next ==
    \/ CallRotationalMapping
    \/ CallNdRotationalMapping
    \/ CallGetWindow2
    \/ CallGetWindownd
    \/ Return

Spec == Init /\ [][Next]_vars
\* ------------------------------------------------------------ properties
Called(op) == call.op = op
Returned == result.status = "ok"
Raised(kind) == result.status = "error" /\ result.kind = kind

\* the call's array argument: its shape and one of its rows
Rows == call.output_coords.shape[1]
Cols == call.output_coords.shape[2]
Point(m) == [n \in 1..Cols |-> At2(call.output_coords, m, n - 1)]

\* four times the squared Euclidean distance of a point to the centre
\* size / 2 - 0.5 of every axis, in fixed-point units squared: exact
RECURSIVE SqDist4(_, _)
SqDist4(pt, size) ==
    IF pt = <<>> THEN 0
    ELSE Sq(2 * Head(pt) - (size - Scale)) + SqDist4(Tail(pt), size)

\* the column that holds the radius: 1 in the 2-D mapper's result, 0 in the
\* N-D mapper's
RadiusOf(res, m) ==
    IF Called("_rotational_mapping") THEN At2(res.value, m, 1) ELSE At2(res.value, m, 0)

\* the mapper of the call applied to the single point pt
MapPoint(pt) ==
    LET oc == [dtype |-> call.output_coords.dtype, shape |-> <<1, Len(pt)>>,
               data |-> [p \in 0..(Len(pt) - 1) |-> pt[p + 1]]]
    IN IF Called("_rotational_mapping") THEN _rotational_mapping(oc, call.window_size)
       ELSE _ndrotational_mapping(oc, call.window_size)

\* a mapper call within its contract: a whole window size, and two columns
\* for the 2-D mapper
MapperCall ==
    /\ Called("_rotational_mapping") \/ Called("_ndrotational_mapping")
    /\ IsIntegral(call.window_size)
    /\ Called("_rotational_mapping") => Cols = 2

\* C5: for a whole window_size, both mappers return a radius that is >= 0,
\* that is 0 for the point whose every component is window_size / 2 - 0.5,
\* and that is the same for any two points at the same squared distance
\* from the centre (two rows of the call, or its row and any other point).
C5_RadiusInvariants ==
    MapperCall =>
        /\ Returned
        /\ \A m \in 0..(Rows - 1) :
            /\ RadiusOf(result, m) >= 0
            /\ SqDist4(Point(m), call.window_size) = 0 => RadiusOf(result, m) = 0
            /\ \A m2 \in 0..(Rows - 1) :
                  SqDist4(Point(m), call.window_size) = SqDist4(Point(m2), call.window_size)
                  => RadiusOf(result, m) = RadiusOf(result, m2)
        /\ Rows = 1 =>
              \A q \in [1..Cols -> ValsOf(call.output_coords.dtype)] :
                  SqDist4(q, call.window_size) = SqDist4(Point(0), call.window_size)
                  => RadiusOf(MapPoint(q), 0) = RadiusOf(result, 0)

\* _rotational_mapping with window_size = 4 at the centre (1.5, 1.5): radius 0
C5_Witness ==
    /\ Called("_rotational_mapping")
    /\ call.window_size = 4 * Scale
    /\ Rows = 1 /\ Cols = 2
    /\ Point(0) = <<Scale + Half, Scale + Half>>
    /\ Returned
    /\ At2(result.value, 0, 1) = 0

\* a size with a fractional part, in whichever argument the call takes it
SizeArg == IF Called("get_window2") \/ Called("get_windownd") THEN call.size
           ELSE call.window_size

\* C7: with a size that has a fractional part, get_window2, get_windownd and
\* both mappers raise the ValueError of the size check; none returns a value.
C7_FractionalSizeRejected ==
    (call # Idle /\ ~IsIntegral(SizeArg)) => Raised("ValueError")

\* the N-D mapper handed window_size = 3.5
C7_Witness ==
    /\ Called("_ndrotational_mapping")
    /\ call.window_size = 3 * Scale + Half
    /\ Raised("ValueError")
    /\ result.from = "safe_as_int"

\* the call's array cut to its first two columns
FirstTwoColumns ==
    [dtype |-> call.output_coords.dtype, shape |-> <<Rows, 2>>,
     data |-> [p \in 0..(2 * Rows - 1) |-> At2(call.output_coords, p \div 2, p % 2)]]

\* C8 as stated: get_windownd with ndim < 1, and _rotational_mapping with a
\* column count other than 2, fail with an error; none returns a result.
C8_Original ==
    /\ (Called("get_windownd") /\ call.ndim < 1) => result.status = "error"
    /\ (Called("_rotational_mapping") /\ Cols # 2) => result.status = "error"

\* C8, amended: get_windownd with ndim < 1 raises (a ValueError: of the size,
\* of the window name, or hstack's for the empty grid list);
\* _rotational_mapping with a whole window_size raises an IndexError for
\* fewer than 2 columns, and for more than 2 columns returns what it returns
\* for the first two columns alone.
C8_Amended ==
    /\ (Called("get_windownd") /\ call.ndim < 1) => Raised("ValueError")
    /\ (Called("get_windownd") /\ call.ndim < 1 /\ IsIntegral(call.size)
            /\ call.window \in Windows) => result.from = "hstack"
    /\ (Called("_rotational_mapping") /\ IsIntegral(call.window_size)) =>
          /\ Cols < 2 => Raised("IndexError")
          /\ Cols > 2 => /\ Returned
                         /\ result = _rotational_mapping(FirstTwoColumns, call.window_size)

\* _rotational_mapping handed a three-column row returns a radius
C8_Witness ==
    /\ Called("_rotational_mapping")
    /\ IsIntegral(call.window_size)
    /\ Cols = 3
    /\ At2(call.output_coords, 0, 2) # At2(call.output_coords, 0, 0)
    /\ Returned
    /\ At2(result.value, 0, 1) > 0

\* the 2-D mapper applied to the arguments of the call
TwoD == _rotational_mapping(call.output_coords, call.window_size)

\* C9 as stated: on an (M, 2) array and a whole window_size the N-D mapper
\* returns the coordinates the 2-D mapper returns.
C9_Original ==
    (Called("_ndrotational_mapping") /\ Cols = 2 /\ IsIntegral(call.window_size)) =>
        /\ Returned
        /\ result.value.shape = TwoD.value.shape
        /\ result.value.data = TwoD.value.data

\* C9, amended: on an (M, 2) array and a whole window_size the N-D mapper
\* returns the rows (radius, 0) where the 2-D mapper returns (0, radius);
\* the radius is the same, truncated to a whole number by the N-D mapper
\* when output_coords has an integer dtype.
C9_Amended ==
    (Called("_ndrotational_mapping") /\ Cols = 2 /\ IsIntegral(call.window_size)) =>
        /\ Returned
        /\ result.value.shape = TwoD.value.shape
        /\ \A m \in 0..(Rows - 1) :
            /\ At2(TwoD.value, m, 0) = 0
            /\ At2(result.value, m, 1) = 0
            /\ At2(result.value, m, 0) =
                  IF call.output_coords.dtype = "int"
                  THEN (At2(TwoD.value, m, 1) \div Scale) * Scale
                  ELSE At2(TwoD.value, m, 1)

\* the N-D mapper on a two-column float row away from the centre
C9_Witness ==
    /\ Called("_ndrotational_mapping")
    /\ Cols = 2
    /\ call.output_coords.dtype = "float"
    /\ IsIntegral(call.window_size)
    /\ Returned
    /\ At2(result.value, 0, 0) > 0
    /\ At2(result.value, 0, 0) % Scale # 0

\* ------------------------------------------------------------ get_window2
\* a get_window2 call the generator accepts: a known window, a whole size
Window2Call ==
    /\ Called("get_window2")
    /\ call.window \in Windows
    /\ IsIntegral(call.size)

\* the size of the call as a Python int, and the full 1-D window
SizeN == call.size \div Scale
FullWindow == get_window(call.window, call.size).value.data
W(i, j) == At2(result.value, i, j)

\* C1: every element of the 2-D window whose distance to the centre
\* size / 2 - 0.5 is a whole number k <= ceil(size / 2) - 1 equals
\* w[floor(size / 2) + k], w the 1-D window; for an odd size the centre row
\* and the centre column are w itself.
C1_ProfileAtWholeRadius ==
    Window2Call =>
        /\ Returned
        /\ result.value.shape = <<SizeN, SizeN>>
        /\ \A i, j \in 0..(SizeN - 1) : \A k \in 0..((SizeN + 1) \div 2 - 1) :
              Sq(2 * i - (SizeN - 1)) + Sq(2 * j - (SizeN - 1)) = 4 * k * k
              => W(i, j) = FullWindow[SizeN \div 2 + k]
        /\ SizeN % 2 = 1 =>
              \A j \in 0..(SizeN - 1) :
                  /\ W((SizeN - 1) \div 2, j) = FullWindow[j]
                  /\ W(j, (SizeN - 1) \div 2) = FullWindow[j]

\* the 7 x 7 Hann window: its centre row runs 0, .25, .75, 1, .75, .25, 0
C1_Witness ==
    /\ Window2Call
    /\ call.window = "hann"
    /\ SizeN = 7
    /\ Returned
    /\ W(3, 3) = Scale
    /\ W(3, 5) = FullWindow[5]
    /\ W(3, 5) # W(3, 4)
    /\ W(0, 3) = 0

\* C2: the 2-D window is unchanged by the point reflection about the centre
\* and by the transposition.
C2_Symmetric ==
    Window2Call =>
        /\ Returned
        /\ \A i, j \in 0..(SizeN - 1) :
              /\ W(i, j) = W(SizeN - 1 - i, SizeN - 1 - j)
              /\ W(i, j) = W(j, i)

\* an 8 x 8 triangular window with three distinct weights off the diagonal
C2_Witness ==
    /\ Window2Call
    /\ call.window = "triang"
    /\ SizeN = 8
    /\ Returned
    /\ W(2, 3) = W(5, 4)
    /\ W(2, 3) = W(3, 2)
    /\ W(2, 3) # 0
    /\ W(2, 3) # W(3, 3)
    /\ W(2, 3) # W(1, 3)

Boxcar5 == Window2Call /\ call.window = "boxcar" /\ SizeN = 5

\* C3 as stated: get_window2("boxcar", 5) is the 5 x 5 array of ones.
C3_Original ==
    Boxcar5 =>
        /\ Returned
        /\ \A i, j \in 0..4 : W(i, j) = Scale

\* C3, amended: get_window2("boxcar", 5) is 1 at the 13 elements within
\* radius 2 of the centre (2, 2), the length of the radial profile, and 0,
\* the fill value of the resampling, at the 12 elements beyond it.
C3_Amended ==
    Boxcar5 =>
        /\ Returned
        /\ result.value.shape = <<5, 5>>
        /\ \A i, j \in 0..4 :
              W(i, j) = IF Sq(i - 2) + Sq(j - 2) <= 4 THEN Scale ELSE 0
        /\ Cardinality({p \in (0..4) \X (0..4) : W(p[1], p[2]) = Scale}) = 13

C3_Witness ==
    /\ Boxcar5
    /\ Returned
    /\ W(2, 2) = Scale
    /\ W(0, 2) = Scale
    /\ W(0, 0) = 0
    /\ W(0, 1) = 0

Hann8 == Window2Call /\ call.window = "hann" /\ SizeN = 8

\* "near 0": within 0.05
NearZero(v) == v >= 0 - Scale \div 20 /\ v <= Scale \div 20

\* C4 as stated: in get_window2("hann", 8) the four elements nearest the
\* centre equal 1.0 and the four corners are near 0.
C4_Original ==
    Hann8 =>
        /\ Returned
        /\ \A i, j \in {3, 4} : W(i, j) = Scale
        /\ \A i, j \in {0, 7} : NearZero(W(i, j))

\* C4, amended: in get_window2("hann", 8) the four elements nearest the
\* centre are equal, and are the radial profile w[4:] interpolated at their
\* radius sqrt(0.5), between w[4] = 0.950, the peak of the 8-sample window,
\* and w[5] = 0.611: 0.710, below the peak; the four corners are 0.
C4_Amended ==
    Hann8 =>
        /\ Returned
        /\ \A i, j \in {3, 4} :
              /\ W(i, j) = (FullWindow[4] * (Scale - sqrt(Sq(Scale) \div 2))
                            + FullWindow[5] * sqrt(Sq(Scale) \div 2)) \div Scale
              /\ W(i, j) < FullWindow[4]
              /\ W(i, j) > FullWindow[5]
        /\ \A k \in 0..7 : FullWindow[k] <= FullWindow[4] /\ FullWindow[4] < Scale
        /\ \A i, j \in {0, 7} : W(i, j) = 0

C4_Witness ==
    /\ Hann8
    /\ Returned
    /\ W(3, 3) = 710
    /\ W(4, 4) = 710
    /\ W(0, 7) = 0

\* ------------------------------------------------------------ get_windownd
\* a get_windownd call the generator accepts
WindowNdCall ==
    /\ Called("get_windownd")
    /\ call.window \in Windows
    /\ IsIntegral(call.size)

RECURSIVE Power(_, _)
Power(b, e) == IF e <= 0 THEN 1 ELSE b * Power(b, e - 1)

\* the n-th digit (n from 0, most significant first) of m written with
\* ndim digits in base size
Digit(m, n, size, ndim) == (m \div Power(size, ndim - 1 - n)) % size

\* all_coords[m, n, k]
A3(m, n, k) == result.value.data[(m * call.ndim + n) * 2 + k]

\* C6 as stated: for ndim >= 1 get_windownd returns size^ndim pairs, the
\* coordinates being the lattice points of [0, size)^ndim in row-major
\* order, each once.
C6_Claim ==
    (WindowNdCall /\ call.ndim >= 1) =>
        /\ Returned
        /\ result.value.shape = <<Power(SizeN, call.ndim), call.ndim, 2>>
        /\ \A m \in 0..(Power(SizeN, call.ndim) - 1) : \A n \in 0..(call.ndim - 1) :
              A3(m, n, 1) = Digit(m, n, SizeN, call.ndim) * Scale

\* C10: the result of get_windownd is the result for any other window the
\* generator accepts; for ndim >= 2 it is a value.
C10_WindowIndependent ==
    WindowNdCall =>
        /\ call.ndim >= 2 => Returned
        /\ \A other \in Windows : get_windownd(other, call.size, call.ndim) = result

\* get_windownd("hann", 4, 3): 64 points, a radius that is no whole number
C10_Witness ==
    /\ WindowNdCall
    /\ call.window = "hann"
    /\ SizeN = 4
    /\ call.ndim = 3
    /\ Returned
    /\ result.value.shape = <<64, 3, 2>>
    /\ A3(0, 0, 0) = sqrt(3 * Sq(Scale + Half))
    /\ A3(63, 2, 1) = 3 * Scale
====
